---- MODULE Spec2Model ----
(***************************************************************************)
(* A model of src/dataframe.py: the CSV reader read_csv (its regular       *)
(* expression tokenizer included), convert_value, and the DataFrame        *)
(* operations filter, select, group_by, aggregate, __getitem__, __repr__.  *)
(*                                                                         *)
(* A Python str is a sequence of one-character strings.  Positions in a    *)
(* line are 1-based; position Len(line)+1 is the end of the line.          *)
(***************************************************************************)
EXTENDS Integers, Sequences, FiniteSets, TLC

DQ == "\""
NL == "\n"
CR == "\r"

(* ----------------------------- bounds ---------------------------------- *)
MaxLineLen == 5
MaxValLen == 4
MaxCsvLineLen == 3
MaxLines == 2
MaxRows == 2
MaxOps == 1

(* ------------------------ generic helpers ------------------------------ *)
MaxOf(S) == CHOOSE x \in S : \A y \in S : y <= x

StringsUpTo(A, n) == UNION {[1..k -> A] : k \in 0..n}

Count(s, c) == Cardinality({k \in 1..Len(s) : s[k] = c})

(* ------------------------- Python str methods -------------------------- *)
\* str.isspace for one character, over the characters the model uses.
IsSpace(c) == c \in {" ", NL, CR}

RECURSIVE SpaceRun(_, _)
\* Length of the longest run of whitespace starting at position p (greedy \s*).
SpaceRun(s, p) ==
    IF p <= Len(s) /\ IsSpace(s[p]) THEN 1 + SpaceRun(s, p + 1) ELSE 0

RECURSIVE SpaceRunBack(_, _)
SpaceRunBack(s, p) ==
    IF p >= 1 /\ IsSpace(s[p]) THEN 1 + SpaceRunBack(s, p - 1) ELSE 0

\* str.strip(): drops the leading and the trailing whitespace.
Strip(s) ==
    LET a == SpaceRun(s, 1)
    IN  IF a = Len(s) THEN <<>>
        ELSE SubSeq(s, a + 1, Len(s) - SpaceRunBack(s, Len(s)))

RECURSIVE RStripNL(_)
\* line.rstrip("\n\r"): drops every trailing line-feed and carriage-return.
RStripNL(s) ==
    IF s # <<>> /\ s[Len(s)] \in {NL, CR} THEN RStripNL(SubSeq(s, 1, Len(s) - 1))
    ELSE s

\* A tokenizer that leaves doubled double quotes as they are.
KeepDQ(s) == s

RECURSIVE ReplaceDQ(_)
\* val.replace('""', '"'): left to right, non-overlapping.
ReplaceDQ(s) ==
    IF Len(s) >= 2 /\ s[1] = DQ /\ s[2] = DQ THEN <<DQ>> \o ReplaceDQ(SubSeq(s, 3, Len(s)))
    ELSE IF s = <<>> THEN <<>>
    ELSE <<s[1]>> \o ReplaceDQ(Tail(s))

(* --------------------------- convert_value ----------------------------- *)
Digits == {"0", "1", "2", "3", "4", "5", "6", "7", "8", "9"}

DigitVal(c) ==
    CASE c = "0" -> 0 [] c = "1" -> 1 [] c = "2" -> 2 [] c = "3" -> 3
      [] c = "4" -> 4 [] c = "5" -> 5 [] c = "6" -> 6 [] c = "7" -> 7
      [] c = "8" -> 8 [] c = "9" -> 9

\* digit (_? digit)* : the digit groups int() and float() accept.
IsDigitPart(s) ==
    /\ s # <<>>
    /\ \A k \in 1..Len(s) : s[k] \in Digits \cup {"_"}
    /\ s[1] \in Digits /\ s[Len(s)] \in Digits
    /\ \A k \in 1..(Len(s) - 1) : ~(s[k] = "_" /\ s[k + 1] = "_")

RECURSIVE DigitsValue(_, _)
\* The base-10 value of the digits of s, underscores skipped.
DigitsValue(s, acc) ==
    IF s = <<>> THEN acc
    ELSE IF s[1] = "_" THEN DigitsValue(Tail(s), acc)
    ELSE DigitsValue(Tail(s), 10 * acc + DigitVal(s[1]))

NumDigits(s) == Cardinality({k \in 1..Len(s) : s[k] \in Digits})

HasSign(s) == s # <<>> /\ s[1] \in {"+", "-"}
Unsigned(s) == IF HasSign(s) THEN Tail(s) ELSE s
SignOf(s) == IF s # <<>> /\ s[1] = "-" THEN -1 ELSE 1

\* int(val) succeeds: surrounding whitespace is dropped, then an optional
\* sign, then digits with single underscores between them.
IntOk(val) == IsDigitPart(Unsigned(Strip(val)))

IntOf(val) == SignOf(Strip(val)) * DigitsValue(Unsigned(Strip(val)), 0)

DotPos(s) == IF \E k \in 1..Len(s) : s[k] = "."
             THEN CHOOSE k \in 1..Len(s) : s[k] = "." /\ \A j \in 1..(k - 1) : s[j] # "."
             ELSE 0

\* float(val) succeeds, for texts without an exponent and without the words
\* inf, infinity and nan: whitespace dropped, optional sign, then
\* digits [. [digits]] or . digits.
FloatOk(val) ==
    LET b == Unsigned(Strip(val))
        d == DotPos(b)
        ip == SubSeq(b, 1, d - 1)
        fp == SubSeq(b, d + 1, Len(b))
    IN  IF d = 0 THEN IsDigitPart(b)
        ELSE /\ ip = <<>> \/ IsDigitPart(ip)
             /\ fp = <<>> \/ IsDigitPart(fp)
             /\ ~(ip = <<>> /\ fp = <<>>)

RECURSIVE Canon(_, _)
\* num * 10^(-scale) with the trailing zeros of num removed: one
\* representation per number.
Canon(num, scale) ==
    IF num = 0 THEN <<0, 0>>
    ELSE IF num % 10 = 0 THEN Canon(num \div 10, scale - 1)
    ELSE <<num, scale>>

Integer(n) == [tag |-> "Integer", num |-> n, scale |-> 0, text |-> <<>>]
Float(num, scale) ==
    [tag |-> "Float", num |-> Canon(num, scale)[1], scale |-> Canon(num, scale)[2],
     text |-> <<>>]
Text(s) == [tag |-> "Text", num |-> 0, scale |-> 0, text |-> s]

FloatOf(val) ==
    LET b == Unsigned(Strip(val))
        d == DotPos(b)
        ip == IF d = 0 THEN b ELSE SubSeq(b, 1, d - 1)
        fp == IF d = 0 THEN <<>> ELSE SubSeq(b, d + 1, Len(b))
    IN  Float(SignOf(Strip(val)) * DigitsValue(ip \o fp, 0), NumDigits(fp))

\* A convert_value that keeps a surrounding pair of double quotes.
KeepQuotes(val) == val

\* One surrounding pair of double quotes is dropped (lines 61-62).
Unquote(val) ==
    IF Len(val) >= 2 /\ val[1] = DQ /\ val[Len(val)] = DQ
    THEN SubSeq(val, 2, Len(val) - 1) ELSE val

ConvertValue(val) ==
    IF val = <<>> THEN Text(val)
    ELSE LET v == Unquote(val)
         IN  IF IntOk(v) THEN Integer(IntOf(v))
             ELSE IF FloatOk(v) THEN FloatOf(v)
             ELSE Text(v)

(* ------------------- the tokenizer of read_csv ------------------------- *)
\* (?:,|$) at position p: the end of the match, or 0 when neither matches.
\* The separator is the comma written in the pattern.
SepOrEnd(line, p) ==
    IF p <= Len(line) /\ line[p] = "," THEN p + 1
    ELSE IF p = Len(line) + 1 THEN p
    ELSE 0

\* \s*(?:,|$) from position r, \s* greedy: the end of the match, or 0.
TrailEnd(line, r) ==
    MaxOf({0} \cup {SepOrEnd(line, r + j) : j \in 0..SpaceRun(line, r)})

RECURSIVE QuotedStops(_, _)
\* The positions where (?:[^"]|"")* can stop when it starts at r.
QuotedStops(line, r) ==
    {r} \cup
    (IF r <= Len(line) /\ line[r] # DQ THEN QuotedStops(line, r + 1)
     ELSE IF r + 1 <= Len(line) /\ line[r] = DQ /\ line[r + 1] = DQ
          THEN QuotedStops(line, r + 2)
     ELSE {})

RECURSIVE UnquotedRun(_, _)
\* Length of the longest run of [^",] starting at q.
UnquotedRun(line, q) ==
    IF q <= Len(line) /\ line[q] \notin {DQ, ","} THEN 1 + UnquotedRun(line, q + 1) ELSE 0

NoMatch == [ok |-> FALSE, start |-> 0, end |-> 0, alt |-> 0, g1 |-> <<>>, g2 |-> <<>>]

\* The first attempt that matched, in the order the engine tries them.
FirstMatch(attempts) ==
    IF \E k \in 1..Len(attempts) : attempts[k].ok
    THEN attempts[CHOOSE k \in 1..Len(attempts) :
                      attempts[k].ok /\ \A j \in 1..(k - 1) : ~attempts[j].ok]
    ELSE NoMatch

\* A match of the whole pattern that started at p and ended at e; e = 0 is
\* no match, and an empty match is refused when mustAdvance.
MatchOf(p, e, alt, g1, g2, mustAdvance) ==
    IF e = 0 \/ (mustAdvance /\ e = p) THEN NoMatch
    ELSE [ok |-> TRUE, start |-> p, end |-> e, alt |-> alt, g1 |-> g1, g2 |-> g2]

RECURSIVE QuotedTries(_, _, _, _, _)
\* The quoted alternative "((?:[^"]|"")*)" then \s*(?:,|$), opened by the
\* quote at q: the star is greedy, so the stops r are tried from the last.
QuotedTries(line, p, q, r, mustAdvance) ==
    IF r <= q THEN <<>>
    ELSE (IF r \in QuotedStops(line, q + 1) /\ r <= Len(line) /\ line[r] = DQ
          THEN <<MatchOf(p, TrailEnd(line, r + 1), 1, SubSeq(line, q + 1, r - 1), <<>>,
                         mustAdvance)>>
          ELSE <<>>)
         \o QuotedTries(line, p, q, r - 1, mustAdvance)

QuotedAlt(line, p, q, mustAdvance) ==
    IF ~(q <= Len(line) /\ line[q] = DQ) THEN NoMatch
    ELSE FirstMatch(QuotedTries(line, p, q, Len(line), mustAdvance))

RECURSIVE UnquotedTries(_, _, _, _, _)
\* The unquoted alternative ([^",]*) then \s*(?:,|$), at q: the lengths k
\* are tried from the longest.
UnquotedTries(line, p, q, k, mustAdvance) ==
    IF k < 0 THEN <<>>
    ELSE <<MatchOf(p, TrailEnd(line, q + k), 2, <<>>, SubSeq(line, q, q + k - 1), mustAdvance)>>
         \o UnquotedTries(line, p, q, k - 1, mustAdvance)

UnquotedAlt(line, p, q, mustAdvance) ==
    FirstMatch(UnquotedTries(line, p, q, UnquotedRun(line, q), mustAdvance))

AltAt(line, p, q, mustAdvance) ==
    FirstMatch(<<QuotedAlt(line, p, q, mustAdvance), UnquotedAlt(line, p, q, mustAdvance)>>)

RECURSIVE LeadTries(_, _, _, _)
\* The leading \s* is greedy and gives back one character at a time.
LeadTries(line, p, k, mustAdvance) ==
    IF k < 0 THEN <<>>
    ELSE <<AltAt(line, p, p + k, mustAdvance)>> \o LeadTries(line, p, k - 1, mustAdvance)

\* pattern.match at p.
MatchAt(line, p, mustAdvance) ==
    FirstMatch(LeadTries(line, p, SpaceRun(line, p), mustAdvance))

RECURSIVE StartTries(_, _, _)
\* pattern.search from s: every start from s to the end of the line.  Only
\* a match at the first start is barred from being empty.
StartTries(line, s, mustAdvance) ==
    IF s > Len(line) + 1 THEN <<>>
    ELSE <<MatchAt(line, s, mustAdvance)>> \o StartTries(line, s + 1, FALSE)

Search(line, pos, mustAdvance) == FirstMatch(StartTries(line, pos, mustAdvance))

RECURSIVE FindIter(_, _, _)
\* The matches after m, the match the last search found.
MatchesFrom(line, m) ==
    IF ~m.ok THEN <<>> ELSE <<m>> \o FindIter(line, m.end, m.end = m.start)

\* pattern.finditer(line): the next search starts where the last match
\* ended, and must advance after an empty match.
FindIter(line, pos, mustAdvance) == MatchesFrom(line, Search(line, pos, mustAdvance))

\* m.group(1) or m.group(2) or ""
GroupOr(m) ==
    IF m.alt = 1 /\ m.g1 # <<>> THEN m.g1
    ELSE IF m.alt = 2 /\ m.g2 # <<>> THEN m.g2
    ELSE <<>>

\* The text of a field right before convert_value (lines 97-98).
RawField(m) == Strip(ReplaceDQ(GroupOr(m)))

RawFieldsOf(ms) == [k \in 1..Len(ms) |-> RawField(ms[k])]

\* The raw fields of one line; separator is the sep of read_csv, which the
\* pattern never uses.
RawFields(line, separator) == RawFieldsOf(FindIter(line, 1, FALSE))

ValuesOf(rf) == [k \in 1..Len(rf) |-> ConvertValue(rf[k])]

\* values of one line (lines 95-100).
Tokenize(line, separator) == ValuesOf(RawFields(line, separator))

(* ----------------------- Python dict and list ------------------------- *)
\* An equality that tells an int from a float of the same value.
PyEqByType(a, b) == a = b

\* a == b for two values: an int and a float compare by number, a str is
\* equal only to the same str.  hash() agrees with it.
PyEq(a, b) ==
    IF a.tag = "Text" \/ b.tag = "Text" THEN a = b
    ELSE Canon(a.num, a.scale) = Canon(b.num, b.scale)

\* A dict is the sequence of its entries [key, ref] in insertion order; ref
\* is the address in the heap of the list object the entry holds.
DictFind(d, key) ==
    IF \E k \in 1..Len(d) : PyEq(d[k].key, key)
    THEN CHOOSE k \in 1..Len(d) : PyEq(d[k].key, key) /\ \A j \in 1..(k - 1) : ~PyEq(d[j].key, key)
    ELSE 0

\* d[key] = ref: an equal key keeps its place and its first key object.
DictSet(d, key, ref) ==
    IF DictFind(d, key) = 0 THEN Append(d, [key |-> key, ref |-> ref])
    ELSE [d EXCEPT ![DictFind(d, key)].ref = ref]

DictKeys(d) == [k \in 1..Len(d) |-> d[k].key]
DictRefs(d) == {d[k].ref : k \in 1..Len(d)}

RECURSIVE EmptyLists(_, _, _)
\* {col: [] for col in cols}: one new empty list per element of cols.
EmptyLists(cols, d, hp) ==
    IF cols = <<>> THEN [d |-> d, hp |-> hp]
    ELSE EmptyLists(Tail(cols), DictSet(d, Head(cols), Len(hp) + 1), Append(hp, <<>>))

(* ------------------------------ DataFrame ------------------------------ *)
PreviewRows == 5

Min(a, b) == IF a <= b THEN a ELSE b

\* __init__ (lines 4-7).
DataFrame(data, hp) ==
    [data |-> data, columns |-> DictKeys(data),
     num_rows |-> IF data = <<>> THEN 0 ELSE Len(hp[data[1].ref])]

\* self.data[col], for a col that is a key.
ColumnOf(t, col, hp) == hp[t.data[DictFind(t.data, col)].ref]

\* self.data[col][i] raises IndexError for some column and some i in
\* range(num_rows).
ShortColumn(t, hp) == \E k \in 1..Len(t.data) : Len(hp[t.data[k].ref]) < t.num_rows

\* The caller's predicates func(row) of filter.
PredHolds(pred, t, i, hp) ==
    CASE pred.kind = "all" -> TRUE
      [] pred.kind = "none" -> FALSE
      [] pred.kind = "eq" ->
            DictFind(t.data, pred.col) # 0 /\ PyEq(ColumnOf(t, pred.col, hp)[i], pred.value)
      [] pred.kind = "ne" ->
            ~(DictFind(t.data, pred.col) # 0 /\ PyEq(ColumnOf(t, pred.col, hp)[i], pred.value))

RECURSIVE Pick(_, _, _)
\* The elements of list at the row numbers of rows that are >= i, in order.
Pick(list, rows, i) ==
    IF i > Len(list) THEN <<>>
    ELSE (IF i \in rows THEN <<list[i]>> ELSE <<>>) \o Pick(list, rows, i + 1)

RECURSIVE FillLists(_, _, _, _, _)
\* Appends, for every column of t, its values at rows to the column's list
\* in d (lines 31-32 and 47-48).
FillLists(t, d, rows, k, hp) ==
    IF k > Len(t.columns) THEN hp
    ELSE LET ref == d[DictFind(d, t.columns[k])].ref
         IN  FillLists(t, d, rows, k + 1,
                       [hp EXCEPT ![ref] = @ \o Pick(ColumnOf(t, t.columns[k], hp), rows, 1)])

\* A filter that hands back the source's own lists when every row passes.
FilterDataReusing(t, pred, hp) ==
    IF \A i \in 1..t.num_rows : PredHolds(pred, t, i, hp) THEN [d |-> t.data, hp |-> hp]
    ELSE [d |-> EmptyLists(t.columns, <<>>, hp).d,
          hp |-> FillLists(t, EmptyLists(t.columns, <<>>, hp).d,
                           {i \in 1..t.num_rows : PredHolds(pred, t, i, hp)}, 1,
                           EmptyLists(t.columns, <<>>, hp).hp)]

\* filter (lines 25-33): the new dict and the heap after it.
FilterData(t, pred, hp) ==
    LET new == EmptyLists(t.columns, <<>>, hp)
        rows == {i \in 1..t.num_rows : PredHolds(pred, t, i, hp)}
    IN  [d |-> new.d, hp |-> FillLists(t, new.d, rows, 1, new.hp)]

RECURSIVE SelectData(_, _, _)
\* select (line 37): {col: self.data[col] for col in cols}.
SelectData(t, cols, d) ==
    IF cols = <<>> THEN d
    ELSE SelectData(t, Tail(cols), DictSet(d, Head(cols), t.data[DictFind(t.data, Head(cols))].ref))

RECURSIVE GroupKeys(_, _, _)
\* The keys of groups in the order lines 43-46 insert them.
GroupKeys(list, i, keys) ==
    IF i > Len(list) THEN keys
    ELSE IF \E k \in 1..Len(keys) : PyEq(keys[k], list[i]) THEN GroupKeys(list, i + 1, keys)
    ELSE GroupKeys(list, i + 1, Append(keys, list[i]))

\* A group_by that creates a group and does not append the row that
\* created it.
GroupRowsSkipFirst(t, col, key, hp) ==
    LET rows == {i \in 1..t.num_rows : PyEq(hp[t.data[DictFind(t.data, col)].ref][i], key)}
    IN  {i \in rows : \E j \in rows : j < i}

\* The rows that lines 44-48 append to the group of key.
GroupRows(t, col, key, hp) ==
    {i \in 1..t.num_rows : PyEq(ColumnOf(t, col, hp)[i], key)}

RECURSIVE GroupData(_, _, _, _, _, _)
\* group_by (lines 42-48): the dicts of the groups, and the heap after.
GroupData(t, col, keys, k, ds, hp) ==
    IF k > Len(keys) THEN [ds |-> ds, hp |-> hp]
    ELSE LET new == EmptyLists(t.columns, <<>>, hp)
         IN  GroupData(t, col, keys, k + 1, Append(ds, new.d),
                       FillLists(t, new.d, GroupRows(t, col, keys[k], hp), 1, new.hp))

\* __repr__ (lines 15-16): the first min(5, num_rows) values of each column.
Preview(t, hp) ==
    [k \in 1..Len(t.columns) |->
        [key |-> t.columns[k],
         head |-> SubSeq(ColumnOf(t, t.columns[k], hp), 1,
                         Min(Min(PreviewRows, t.num_rows), Len(ColumnOf(t, t.columns[k], hp))))]]

(* ------------------------------ state ---------------------------------- *)
VARIABLES
    line,       \* one line of the file, as the loop of read_csv reads it
    sep,        \* the sep argument of read_csv
    fields,     \* the texts handed to convert_value for that line
    values,     \* the list values built for that line
    tpc,        \* "ready", then "done" (tokenized) or "skipped" (empty line)
    val,        \* the argument of convert_value
    converted,  \* what convert_value returned
    cpc,        \* "ready", then "done"
    file,       \* the lines of the file read_csv opens, line ends included
    i,          \* the number of lines the loop of read_csv has read
    header,     \* the local header of read_csv: [bound, names]
    columns,    \* the local columns of read_csv: [none, d]
    pc,         \* "loop", then "done" or "raised"
    exc,        \* the exception read_csv or the last operation raised
    heap,       \* the list objects: heap[ref] is the content of list ref
    tables,     \* the DataFrame objects, in the order they were made
    last,       \* the last DataFrame operation: its arguments and outcome
    nops        \* the number of operations called so far

vars == <<line, sep, fields, values, tpc, val, converted, cpc,
          file, i, header, columns, pc, exc, heap, tables, last, nops>>

tokVars == <<line, sep, fields, values, tpc>>
convVars == <<val, converted, cpc>>
csvVars == <<file, i, header, columns>>
tableVars == <<pc, exc, heap, tables, last, nops>>

TokAlphabet == {"a", "1", ",", ";", DQ, " "}
ConvAlphabet == {"0", "1", "-", "+", "_", " ", ".", "a", DQ}
CsvAlphabet == {"a", "1", ","}
Seps == {",", ";"}

Unbound == [bound |-> FALSE, names |-> <<>>]
None == [none |-> TRUE, d |-> <<>>]
NoOp == [op |-> "none", src |-> 0, names |-> <<>>, pred |-> "", status |-> "none",
         out |-> <<>>, keys |-> <<>>, ret |-> <<>>]

TokIdle == line = <<>> /\ sep = "," /\ fields = <<>> /\ values = <<>> /\ tpc = "off"
ConvIdle == val = <<>> /\ converted = Text(<<>>) /\ cpc = "off"
CsvIdle == file = <<>> /\ i = 0 /\ header = Unbound /\ columns = None
TableIdle == pc = "off" /\ exc = "" /\ heap = <<>> /\ tables = <<>> /\ last = NoOp /\ nops = 0

(* ---------------- one line through the loop body of read_csv ----------- *)
InitTok ==
    /\ \E l \in StringsUpTo(TokAlphabet, MaxLineLen) : line = l \o <<NL>>
    /\ sep \in Seps
    /\ fields = <<>> /\ values = <<>> /\ tpc = "ready"
    /\ ConvIdle /\ CsvIdle /\ TableIdle

\* Lines 91-93: an empty line is skipped.
SkipLine ==
    /\ tpc = "ready"
    /\ RStripNL(line) = <<>>
    /\ tpc' = "skipped"
    /\ UNCHANGED <<line, sep, fields, values, convVars, csvVars, tableVars>>

\* Lines 91-100: a non-empty line is tokenized.
TokenizeLine ==
    /\ tpc = "ready"
    /\ RStripNL(line) # <<>>
    /\ fields' = RawFields(RStripNL(line), sep)
    /\ values' = Tokenize(RStripNL(line), sep)
    /\ tpc' = "done"
    /\ UNCHANGED <<line, sep, convVars, csvVars, tableVars>>

NextTok == SkipLine \/ TokenizeLine

SpecTok == InitTok /\ [][NextTok]_vars

(* --------------------------- convert_value ----------------------------- *)
InitConv ==
    /\ val \in StringsUpTo(ConvAlphabet, MaxValLen)
    /\ converted = Text(<<>>) /\ cpc = "ready"
    /\ TokIdle /\ CsvIdle /\ TableIdle

Convert ==
    /\ cpc = "ready"
    /\ converted' = ConvertValue(val)
    /\ cpc' = "done"
    /\ UNCHANGED <<val, tokVars, csvVars, tableVars>>

NextConv == Convert

SpecConv == InitConv /\ [][NextConv]_vars

(* ------------------------------ read_csv ------------------------------- *)
CsvLines == {l \o <<NL>> : l \in StringsUpTo(CsvAlphabet, MaxCsvLineLen)}

InitCsv ==
    /\ file \in UNION {[1..n -> CsvLines] : n \in 0..MaxLines}
    /\ sep \in Seps
    /\ i = 0 /\ header = Unbound /\ columns = None
    /\ pc = "loop" /\ exc = "" /\ heap = <<>> /\ tables = <<>> /\ last = NoOp /\ nops = 0
    /\ line = <<>> /\ fields = <<>> /\ values = <<>> /\ tpc = "off"
    /\ ConvIdle

\* The line the loop is about to read: file[i + 1] is line number i of
\* enumerate(f).
Current == RStripNL(file[i + 1])

\* Lines 90-93: an empty line is skipped.
SkipEmptyLine ==
    /\ pc = "loop" /\ i < Len(file)
    /\ Current = <<>>
    /\ i' = i + 1
    /\ UNCHANGED <<file, header, columns, sep, tableVars, line, fields, values, tpc, convVars>>

\* Lines 95-104: line number 0 is not empty; its values are the header.
ReadHeader ==
    /\ pc = "loop" /\ i < Len(file)
    /\ Current # <<>>
    /\ i = 0
    /\ LET new == EmptyLists(Tokenize(Current, sep), <<>>, heap)
       IN  /\ header' = [bound |-> TRUE, names |-> Tokenize(Current, sep)]
           /\ columns' = [none |-> FALSE, d |-> new.d]
           /\ heap' = new.hp
    /\ i' = i + 1
    /\ UNCHANGED <<file, sep, pc, exc, tables, last, nops, line, fields, values, tpc, convVars>>

RECURSIVE ZipAppend(_, _, _, _, _)
\* for h, v in zip(header, values): columns[h].append(v)   (lines 106-107)
ZipAppend(names, vs, d, k, hp) ==
    IF k > Min(Len(names), Len(vs)) THEN hp
    ELSE ZipAppend(names, vs, d, k + 1,
                   [hp EXCEPT ![d[DictFind(d, names[k])].ref] = Append(@, vs[k])])

\* Lines 95-107: a later line that is not empty is a record.
ReadRecord ==
    /\ pc = "loop" /\ i < Len(file)
    /\ Current # <<>>
    /\ i # 0
    /\ header.bound
    /\ heap' = ZipAppend(header.names, Tokenize(Current, sep), columns.d, 1, heap)
    /\ i' = i + 1
    /\ UNCHANGED <<file, sep, header, columns, pc, exc, tables, last, nops,
                   line, fields, values, tpc, convVars>>

\* Line 106 when line number 0 was empty: header was never assigned.
ReadRecordUnbound ==
    /\ pc = "loop" /\ i < Len(file)
    /\ Current # <<>>
    /\ i # 0
    /\ ~header.bound
    /\ pc' = "raised" /\ exc' = "UnboundLocalError"
    /\ UNCHANGED <<file, i, sep, header, columns, heap, tables, last, nops,
                   line, fields, values, tpc, convVars>>

\* Line 109: return DataFrame(columns); data.keys() fails on None.
Return ==
    /\ pc = "loop" /\ i = Len(file)
    /\ IF columns.none
       THEN pc' = "raised" /\ exc' = "AttributeError" /\ UNCHANGED tables
       ELSE pc' = "done" /\ exc' = "" /\ tables' = <<DataFrame(columns.d, heap)>>
    /\ UNCHANGED <<file, i, sep, header, columns, heap, last, nops,
                   line, fields, values, tpc, convVars>>

(* ------------------------ DataFrame operations ------------------------- *)
Names == {Text(<<"a">>), Text(<<"b">>), Text(<<"z">>)}
NameLists ==
    {<<>>, <<Text(<<"a">>)>>, <<Text(<<"b">>)>>, <<Text(<<"z">>)>>,
     <<Text(<<"a">>), Text(<<"b">>)>>, <<Text(<<"b">>), Text(<<"a">>)>>,
     <<Text(<<"a">>), Text(<<"a">>)>>, <<Text(<<"a">>), Text(<<"z">>)>>}
FilterPreds ==
    {[kind |-> k, col |-> Text(<<"a">>), value |-> Integer(1)] : k \in {"all", "none", "eq", "ne"}}
Reducers == {"len"}

CanCall == pc = "done" /\ nops < MaxOps

Called(op, t, names, pred, status, out, keys, ret) ==
    /\ last' = [op |-> op, src |-> t, names |-> names, pred |-> pred, status |-> status,
                out |-> out, keys |-> keys, ret |-> ret]
    /\ exc' = IF status = "ok" THEN "" ELSE status
    /\ nops' = nops + 1
    /\ UNCHANGED <<pc, tokVars, convVars, csvVars>>

\* A __getitem__ that answers an absent name with an empty list.
GetItemOrEmpty(t, name) ==
    /\ CanCall
    /\ Called("getitem", t, <<name>>, "", "ok", <<>>, <<>>,
              IF DictFind(tables[t].data, name) = 0 THEN <<>>
              ELSE ColumnOf(tables[t], name, heap))
    /\ UNCHANGED <<heap, tables>>

\* __getitem__ (lines 9-11).
GetItem(t, name) ==
    /\ CanCall
    /\ IF DictFind(tables[t].data, name) = 0
       THEN Called("getitem", t, <<name>>, "", "KeyError", <<>>, <<>>, <<>>)
       ELSE Called("getitem", t, <<name>>, "", "ok", <<>>, <<>>, ColumnOf(tables[t], name, heap))
    /\ UNCHANGED <<heap, tables>>

\* __repr__ (lines 13-17).
Repr(t) ==
    /\ CanCall
    /\ Called("repr", t, <<>>, "", "ok", <<>>, <<>>, Preview(tables[t], heap))
    /\ UNCHANGED <<heap, tables>>

\* filter (lines 25-33).
Filter(t, pred) ==
    /\ CanCall
    /\ IF ShortColumn(tables[t], heap)
       THEN /\ Called("filter", t, <<>>, pred.kind, "IndexError", <<>>, <<>>, <<>>)
            /\ UNCHANGED <<heap, tables>>
       ELSE LET new == FilterData(tables[t], pred, heap)
            IN  /\ heap' = new.hp
                /\ tables' = Append(tables, DataFrame(new.d, new.hp))
                /\ Called("filter", t, <<>>, pred.kind, "ok", <<Len(tables) + 1>>, <<>>, <<>>)

\* select (lines 35-38).
Select(t, cols) ==
    /\ CanCall
    /\ IF \E k \in 1..Len(cols) : DictFind(tables[t].data, cols[k]) = 0
       THEN /\ Called("select", t, cols, "", "KeyError", <<>>, <<>>, <<>>)
            /\ UNCHANGED <<heap, tables>>
       ELSE /\ tables' = Append(tables, DataFrame(SelectData(tables[t], cols, <<>>), heap))
            /\ Called("select", t, cols, "", "ok", <<Len(tables) + 1>>, <<>>, <<>>)
            /\ UNCHANGED heap

\* group_by (lines 40-49).
GroupBy(t, name) ==
    /\ CanCall
    /\ IF tables[t].num_rows = 0
       THEN /\ Called("group_by", t, <<name>>, "", "ok", <<>>, <<>>, <<>>)
            /\ UNCHANGED <<heap, tables>>
       ELSE IF DictFind(tables[t].data, name) = 0
       THEN /\ Called("group_by", t, <<name>>, "", "KeyError", <<>>, <<>>, <<>>)
            /\ UNCHANGED <<heap, tables>>
       ELSE IF ShortColumn(tables[t], heap)
       THEN /\ Called("group_by", t, <<name>>, "", "IndexError", <<>>, <<>>, <<>>)
            /\ UNCHANGED <<heap, tables>>
       ELSE LET keys == GroupKeys(SubSeq(ColumnOf(tables[t], name, heap), 1, tables[t].num_rows),
                                  1, <<>>)
                new == GroupData(tables[t], name, keys, 1, <<>>, heap)
            IN  /\ heap' = new.hp
                /\ tables' = tables \o [k \in 1..Len(keys) |-> DataFrame(new.ds[k], new.hp)]
                /\ Called("group_by", t, <<name>>, "", "ok",
                          [k \in 1..Len(keys) |-> Len(tables) + k], keys, <<>>)

\* The caller's reducers func(list) of aggregate.
Reduce(func, list) == <<Integer(Len(list))>>

\* aggregate (lines 51-53).
Aggregate(t, name, func) ==
    /\ CanCall
    /\ IF DictFind(tables[t].data, name) = 0
       THEN Called("aggregate", t, <<name>>, "", "KeyError", <<>>, <<>>, <<>>)
       ELSE Called("aggregate", t, <<name>>, "", "ok", <<>>, <<>>,
                   Reduce(func, ColumnOf(tables[t], name, heap)))
    /\ UNCHANGED <<heap, tables>>

CallGetItem == \E t \in 1..Len(tables) : \E name \in Names : GetItem(t, name)
CallRepr == \E t \in 1..Len(tables) : Repr(t)
CallFilter == \E t \in 1..Len(tables) : \E pred \in FilterPreds : Filter(t, pred)
CallSelect == \E t \in 1..Len(tables) : \E cols \in NameLists : Select(t, cols)
CallGroupBy == \E t \in 1..Len(tables) : \E name \in Names : GroupBy(t, name)
CallAggregate ==
    \E t \in 1..Len(tables) : \E name \in Names : \E func \in Reducers : Aggregate(t, name, func)

NextCsv ==
    \/ SkipEmptyLine \/ ReadHeader \/ ReadRecord \/ ReadRecordUnbound \/ Return
    \/ CallGetItem \/ CallRepr \/ CallFilter \/ CallSelect \/ CallGroupBy \/ CallAggregate

SpecCsv == InitCsv /\ [][NextCsv]_vars

(* ------------- tables built by DataFrame(data) directly ---------------- *)
CellValues == {Integer(1), Float(10, 1), Text(<<"1">>)}
ColumnLists == UNION {[1..n -> CellValues] : n \in 0..MaxRows}

\* DataFrame({}), DataFrame({"a": la}) or DataFrame({"a": la, "b": lb}) with
\* lists of one length.
InitTable ==
    /\ \E n \in 0..2 : \E la, lb \in ColumnLists :
          /\ Len(la) = Len(lb)
          /\ n = 0 => la = <<>>
          /\ heap = IF n = 0 THEN <<>> ELSE IF n = 1 THEN <<la>> ELSE <<la, lb>>
          /\ tables = <<DataFrame(SubSeq(<<[key |-> Text(<<"a">>), ref |-> 1],
                                           [key |-> Text(<<"b">>), ref |-> 2]>>, 1, n), heap)>>
    /\ pc = "done" /\ exc = "" /\ last = NoOp /\ nops = 0
    /\ TokIdle /\ ConvIdle /\ CsvIdle

NextTable ==
    CallGetItem \/ CallRepr \/ CallFilter \/ CallSelect \/ CallGroupBy \/ CallAggregate

SpecTable == InitTable /\ [][NextTable]_vars

(* ------------------------------ claims --------------------------------- *)
Content == RStripNL(line)

\* C1: a non-empty line made only of unquoted fields is tokenized into
\* (number of occurrences of sep in the line) + 1 fields.
C1_FieldCount ==
    (tpc = "done" /\ Count(Content, DQ) = 0) => Len(values) = Count(Content, sep) + 1

(* The lines of the file that are not empty, and what read_csv is to make of
   them: the first is the header, each later one a record. *)
NonEmptyLines == SelectSeq(file, LAMBDA l : RStripNL(l) # <<>>)

RECURSIVE RecordsHeap(_, _, _, _)
RecordsHeap(names, d, lines, hp) ==
    IF lines = <<>> THEN hp
    ELSE RecordsHeap(names, d, Tail(lines),
                     ZipAppend(names, Tokenize(RStripNL(Head(lines)), sep), d, 1, hp))

ExpectedNames == Tokenize(RStripNL(Head(NonEmptyLines)), sep)
ExpectedColumns == EmptyLists(ExpectedNames, <<>>, <<>>)
ExpectedHeap ==
    RecordsHeap(ExpectedNames, ExpectedColumns.d, Tail(NonEmptyLines), ExpectedColumns.hp)

\* C2: whatever empty lines stand before, between or after the others, the
\* first non-empty line is the header and every later non-empty line is a
\* record; read_csv ends with the table of the non-empty lines.
C2_FirstNonEmptyLineIsHeader ==
    (pc \in {"done", "raised"} /\ NonEmptyLines # <<>>) =>
        /\ pc = "done"
        /\ header.names = ExpectedNames
        /\ tables[1].data = ExpectedColumns.d
        /\ \A r \in DictRefs(tables[1].data) : heap[r] = ExpectedHeap[r]

\* C3: with no non-empty line read_csv returns a table with no columns and
\* num_rows = 0, and __repr__ of it does not raise.
C3_EmptyInputGivesEmptyTable ==
    (pc \in {"done", "raised"} /\ NonEmptyLines = <<>>) =>
        /\ pc = "done"
        /\ tables[1].columns = <<>> /\ tables[1].num_rows = 0
        /\ (last.op = "repr" /\ last.src = 1) => last.status = "ok"

Aligned(t) == \A k \in 1..Len(t.data) : Len(heap[t.data[k].ref]) = t.num_rows

\* C4: in every table read_csv returned, and in every table filter, select
\* and group_by made from it, each column has exactly num_rows values.
C4_ColumnAlignment == \A t \in 1..Len(tables) : Aligned(tables[t])

(* The values of list at the row numbers rows, in increasing order. *)
NthOf(rows, j) == CHOOSE r \in rows : Cardinality({q \in rows : q < r}) = j - 1
RowsAt(list, rows) == [j \in 1..Cardinality(rows) |-> list[NthOf(rows, j)]]

RECURSIVE SumRows(_)
SumRows(out) == IF out = <<>> THEN 0 ELSE tables[Head(out)].num_rows + SumRows(Tail(out))

\* C5: for a table whose columns all have num_rows values, the sub-tables of
\* group_by partition its rows: each row goes, whole, to exactly one
\* sub-table, the rows of a sub-table keep their order, and the sub-tables'
\* num_rows sum to the table's num_rows.
C5_GroupByPartitions ==
    (last.op = "group_by" /\ last.status = "ok" /\ Aligned(tables[last.src])) =>
        LET T == tables[last.src]
        IN  /\ SumRows(last.out) = T.num_rows
            /\ \E f \in [1..T.num_rows -> 1..Len(last.out)] :
                  \A g \in 1..Len(last.out) :
                      LET sub == tables[last.out[g]]
                          rows == {r \in 1..T.num_rows : f[r] = g}
                      IN  /\ sub.columns = T.columns
                          /\ sub.num_rows = Cardinality(rows)
                          /\ \A k \in 1..Len(T.data) :
                                /\ sub.data[k].key = T.data[k].key
                                /\ heap[sub.data[k].ref] = RowsAt(heap[T.data[k].ref], rows)

\* A table of two columns and two rows was split into two groups.
C5_Witness ==
    /\ last.op = "group_by" /\ last.status = "ok"
    /\ Len(tables[last.src].data) = 2 /\ tables[last.src].num_rows = 2
    /\ Len(last.out) = 2

RECURSIVE Pow10(_)
Pow10(n) == IF n <= 0 THEN 1 ELSE 10 * Pow10(n - 1)

\* Python's == on two values: numbers by their value, whatever their types;
\* a text only with the same text.
SameValue(a, b) ==
    IF a.tag = "Text" \/ b.tag = "Text" THEN a.tag = b.tag /\ a.text = b.text
    ELSE a.num * Pow10(b.scale - Min(a.scale, b.scale))
            = b.num * Pow10(a.scale - Min(a.scale, b.scale))

\* The same type tag and the same payload.
SameTypeAndPayload(a, b) == a.tag = b.tag /\ a.num = b.num /\ a.scale = b.scale /\ a.text = b.text

IsColumn(t, name) == \E k \in 1..Len(t.data) : SameValue(t.data[k].key, name)
ColumnIndex(t, name) == CHOOSE k \in 1..Len(t.data) : SameValue(t.data[k].key, name)

\* The values of the grouping column in the g-th sub-table of the last group_by.
GroupValues(g) ==
    heap[tables[last.out[g]].data[ColumnIndex(tables[last.src], last.names[1])].ref]

Grouped == last.op = "group_by" /\ last.status = "ok" /\ last.out # <<>>

\* C6 (as stated): two rows are in the same sub-table exactly when their
\* grouping values have the same type tag and the same payload.
C6_GroupsByTypeAndPayload ==
    Grouped =>
        \A g, h \in 1..Len(last.out) :
            \A x \in 1..Len(GroupValues(g)) : \A y \in 1..Len(GroupValues(h)) :
                (g = h) <=> SameTypeAndPayload(GroupValues(g)[x], GroupValues(h)[y])

\* C6 (amended): two rows are in the same sub-table exactly when their
\* grouping values are equal under Python's ==: the same text, or the same
\* number whether Integer or Float; a text and a number never are.
C6_GroupsByPythonEquality ==
    Grouped =>
        \A g, h \in 1..Len(last.out) :
            \A x \in 1..Len(GroupValues(g)) : \A y \in 1..Len(GroupValues(h)) :
                (g = h) <=> SameValue(GroupValues(g)[x], GroupValues(h)[y])

\* Integer 1 and Float 1.0 were put in one sub-table.
C6_Witness ==
    /\ Grouped
    /\ Len(last.out) = 1
    /\ GroupValues(1) = <<Integer(1), Float(10, 1)>>

Made == IF last.status = "ok" THEN {last.out[k] : k \in 1..Len(last.out)} ELSE {}

\* C7 (as stated): no column of a table made by filter, select or group_by
\* is the same list object as a column of the table it was made from.
C7_NoSharedStorage ==
    last.op \in {"filter", "select", "group_by"} =>
        \A r \in Made : DictRefs(tables[r].data) \cap DictRefs(tables[last.src].data) = {}

\* C7 (amended): every column of a table made by filter or group_by is a
\* list object made by that call and held by no other table; the columns
\* of a table made by select are the very list objects of the source
\* table's columns of those names; and no operation changes a list or a
\* table that existed before it.
C7_StorageOwnership ==
    [][/\ SubSeq(heap', 1, Len(heap)) = heap
       /\ SubSeq(tables', 1, Len(tables)) = tables
       /\ last'.op \in {"filter", "group_by"} =>
             \A r \in (Len(tables) + 1)..Len(tables') :
                 /\ \A a \in DictRefs(tables'[r].data) : a > Len(heap)
                 /\ \A q \in (Len(tables) + 1)..Len(tables') :
                       q # r => DictRefs(tables'[r].data) \cap DictRefs(tables'[q].data) = {}
       /\ last'.op = "select" =>
             \A r \in (Len(tables) + 1)..Len(tables') :
                 \A k \in 1..Len(tables'[r].data) :
                     /\ IsColumn(tables[last'.src], tables'[r].data[k].key)
                     /\ tables'[r].data[k].ref =
                           tables[last'.src].data[
                               ColumnIndex(tables[last'.src], tables'[r].data[k].key)].ref
      ]_vars

\* select made a table of two columns and two rows out of the source's lists.
C7_Witness ==
    /\ last.op = "select" /\ last.status = "ok"
    /\ Len(tables[last.out[1]].data) = 2 /\ tables[last.out[1]].num_rows = 2
    /\ DictRefs(tables[last.out[1]].data) = DictRefs(tables[last.src].data)

NamesAbsent ==
    /\ last.op \in {"getitem", "select", "group_by", "aggregate"}
    /\ \E k \in 1..Len(last.names) : ~IsColumn(tables[last.src], last.names[k])

\* C8 (as stated): __getitem__, select, group_by and aggregate raise
\* KeyError for a name that is not a column, whatever the table.
C8_AbsentNameRaises == NamesAbsent => last.status = "KeyError"

\* C8 (amended): __getitem__, select and aggregate raise KeyError for a name
\* that is not a column, whatever the table; group_by raises it when the
\* table has at least one row, and returns an empty mapping when
\* num_rows = 0.
C8_AbsentNameRaisesUnlessNoRows ==
    NamesAbsent =>
        IF last.op = "group_by" /\ tables[last.src].num_rows = 0
        THEN last.status = "ok" /\ last.out = <<>>
        ELSE last.status = "KeyError"

\* select of an absent name on the table without columns raised KeyError.
C8_Witness ==
    /\ NamesAbsent
    /\ last.op = "select" /\ tables[last.src].data = <<>>
    /\ last.status = "KeyError"

\* A quoted field: wrapped in double quotes, every double quote doubled.
RECURSIVE DoubleQuotes(_)
DoubleQuotes(s) ==
    IF s = <<>> THEN <<>>
    ELSE (IF s[1] = DQ THEN <<DQ, DQ>> ELSE <<s[1]>>) \o DoubleQuotes(Tail(s))

Encode(s) == <<DQ>> \o DoubleQuotes(s) \o <<DQ>>

Literals == StringsUpTo(TokAlphabet, MaxLineLen - 2)
Encodings == {Encode(s) : s \in Literals}

\* The literal a quoted field encodes.
LiteralOf == [e \in Encodings |-> CHOOSE s \in Literals : Encode(s) = e]

\* The line holds a quoted field alone (1), before an unquoted field (2) or
\* after one (3): the quoted field, and its place among the fields.
QuotedPart(shape) ==
    CASE shape = 1 -> Content
      [] shape = 2 -> IF Len(Content) >= 2 /\ SubSeq(Content, Len(Content) - 1, Len(Content)) = <<",", "a">>
                      THEN SubSeq(Content, 1, Len(Content) - 2) ELSE <<>>
      [] shape = 3 -> IF Len(Content) >= 2 /\ SubSeq(Content, 1, 2) = <<"a", ",">>
                      THEN SubSeq(Content, 3, Len(Content)) ELSE <<>>

Place(shape) == IF shape = 3 THEN 2 ELSE 1

RECURSIVE LStripSpaces(_)
LStripSpaces(t) == IF t # <<>> /\ t[1] = " " THEN LStripSpaces(Tail(t)) ELSE t

RECURSIVE RStripSpaces(_)
RStripSpaces(t) ==
    IF t # <<>> /\ t[Len(t)] = " " THEN RStripSpaces(SubSeq(t, 1, Len(t) - 1)) ELSE t

Trimmed(t) == RStripSpaces(LStripSpaces(t))

\* C9 (as stated): encoding a literal text s as a quoted field and
\* tokenizing a line that holds the field recovers exactly s.
C9_RoundTrip ==
    tpc = "done" =>
        \A shape \in 1..3 :
            QuotedPart(shape) \in Encodings =>
                /\ Len(fields) >= Place(shape)
                /\ fields[Place(shape)] = LiteralOf[QuotedPart(shape)]

\* C9 (amended): the field text handed to convert_value is s without its
\* leading and trailing whitespace, so it is s whenever s neither starts
\* nor ends with whitespace.
C9_RoundTripTrimmed ==
    tpc = "done" =>
        \A shape \in 1..3 :
            QuotedPart(shape) \in Encodings =>
                /\ Len(fields) >= Place(shape)
                /\ fields[Place(shape)] = Trimmed(LiteralOf[QuotedPart(shape)])

\* A literal with one embedded double quote went through the round trip.
C9_Witness ==
    /\ tpc = "done"
    /\ Content = Encode(<<"a", DQ>>)
    /\ fields[1] = <<"a", DQ>>

\* One surrounding pair of double quotes removed, if present.
WithoutQuotePair(t) ==
    IF Len(t) >= 2 /\ Head(t) = DQ /\ t[Len(t)] = DQ THEN [k \in 1..(Len(t) - 2) |-> t[k + 1]]
    ELSE t

\* sign? digit+ and nothing else.
PlainInteger(t) ==
    LET b == IF t # <<>> /\ t[1] \in {"+", "-"} THEN Tail(t) ELSE t
    IN  b # <<>> /\ \A k \in 1..Len(b) : b[k] \in Digits

RECURSIVE GroupedDigits(_, _)
\* Scans digit (_? digit)*; prev is "start", "digit" or "underscore".
GroupedDigits(t, prev) ==
    IF t = <<>> THEN prev = "digit"
    ELSE IF t[1] \in Digits THEN GroupedDigits(Tail(t), "digit")
    ELSE IF t[1] = "_" /\ prev = "digit" THEN GroupedDigits(Tail(t), "underscore")
    ELSE FALSE

\* whitespace* sign? digit (_? digit)* whitespace*
PythonInteger(t) ==
    LET u == Trimmed(t)
        b == IF u # <<>> /\ u[1] \in {"+", "-"} THEN Tail(u) ELSE u
    IN  GroupedDigits(b, "start")

\* C10 (as stated): convert_value returns an Integer exactly when the text,
\* one surrounding pair of double quotes removed, is sign? digit+.
C10_IntegerIffPlain ==
    cpc = "done" => (converted.tag = "Integer" <=> PlainInteger(WithoutQuotePair(val)))

\* C10 (amended): convert_value returns an Integer exactly when the text,
\* one surrounding pair of double quotes removed, is optional whitespace,
\* an optional sign, digits with single underscores allowed between two
\* digits, and optional whitespace.
C10_IntegerIffPython ==
    cpc = "done" => (converted.tag = "Integer" <=> PythonInteger(WithoutQuotePair(val)))

\* A quoted, signed integer was converted.
C10_Witness ==
    /\ cpc = "done"
    /\ val = <<DQ, "-", "1", DQ>>
    /\ converted = Integer(-1)

====
